---- MODULE Spec2Model ----
(***************************************************************************)
(* Model of perfstats.py: the PerformanceStats class.                      *)
(*                                                                         *)
(* Strings are TLA+ strings; a Python list is a sequence; a Python value   *)
(* whose run-time type the code inspects (isinstance) is a record          *)
(* [t |-> type name, v |-> value].  A float is held as the integer number  *)
(* of hundredths (every token of the inputs has at most two decimals).     *)
(* Python indices are 0-based, the model's are 1-based.                    *)
(***************************************************************************)
EXTENDS Integers, Sequences, FiniteSets, TLC

\* Largest number of entries in the scanned directory.
MaxFiles == 3
\* Largest number of subdivideomp calls made on one instance.
MaxCalls == 2

VARIABLES
    dir,          \* the scanned directory: sequence of [name, text], in os.listdir order
    path,         \* self.path
    gpuruns,      \* self.gpuruns
    files,        \* self.files
    nprocs,       \* self.nprocs
    nthreads,     \* self.nthreads
    performance,  \* self.performance
    ncpus,        \* self.ncpus
    ngpus,        \* self.ngpus (<<>> while the attribute does not exist)
    indeces,      \* the local `indeces` of sortStats, as last computed
    pc,           \* "new" before __init__, then "constructed" or "failed"
    raised,       \* the exception the last call raised, or "none"
    printed,      \* what the last subdivideomp call printed
    calls         \* number of subdivideomp calls made so far

vars == <<dir, path, gpuruns, files, nprocs, nthreads, performance, ncpus,
          ngpus, indeces, pc, raised, printed, calls>>

fields == <<files, nprocs, nthreads, performance, ncpus, ngpus>>

-----------------------------------------------------------------------------
(* Python values and string primitives *)

PyList(s) == [t |-> "list", v |-> s]

\* `sub in s` for strings
Contains(s, sub) ==
    \E i \in 1..(Len(s) - Len(sub) + 1) : SubSeq(s, i, i + Len(sub) - 1) = sub

RECURSIVE SplitFrom(_, _, _, _)
SplitFrom(s, sep, i, cur) ==
    IF i > Len(s)
    THEN <<cur>>
    ELSE IF SubSeq(s, i, i) = sep
         THEN <<cur>> \o SplitFrom(s, sep, i + 1, "")
         ELSE SplitFrom(s, sep, i + 1, cur \o SubSeq(s, i, i))

\* the pieces of s between occurrences of the one-character separator sep
SplitOn(s, sep) == SplitFrom(s, sep, 1, "")

\* str.split(): whitespace-separated tokens, empty pieces dropped
Split(line) == SelectSeq(SplitOn(line, " "), LAMBDA tok : tok # "")

Digits == <<"0", "1", "2", "3", "4", "5", "6", "7", "8", "9">>

IsDigit(c) == \E d \in 1..10 : Digits[d] = c

DigitVal(c) == (CHOOSE d \in 1..10 : Digits[d] = c) - 1

AllDigits(s) == \A i \in 1..Len(s) : IsDigit(SubSeq(s, i, i))

RECURSIVE DigitsVal(_)
DigitsVal(s) ==
    IF Len(s) = 0 THEN 0
    ELSE 10 * DigitsVal(SubSeq(s, 1, Len(s) - 1)) + DigitVal(SubSeq(s, Len(s), Len(s)))

\* int(tok) succeeds
IsInt(tok) == Len(tok) > 0 /\ AllDigits(tok)

\* int(tok)
IntOf(tok) == DigitsVal(tok)

\* float(tok) succeeds (decimal notation, at most two decimals)
IsFloat(tok) ==
    LET parts == SplitOn(tok, ".")
    IN  /\ Len(parts) \in {1, 2}
        /\ \A k \in 1..Len(parts) : AllDigits(parts[k])
        /\ \E k \in 1..Len(parts) : Len(parts[k]) > 0
        /\ Len(parts) = 2 => Len(parts[2]) <= 2

\* float(tok), in hundredths
FloatOf(tok) ==
    LET parts == SplitOn(tok, ".")
        frac  == IF Len(parts) = 2 THEN parts[2] ELSE ""
    IN  100 * DigitsVal(parts[1])
          + (IF Len(frac) = 0 THEN 0
             ELSE IF Len(frac) = 1 THEN 10 * DigitsVal(frac)
             ELSE DigitsVal(frac))

-----------------------------------------------------------------------------
(* The file system *)

\* The components a path string names, relative to the working directory.
Resolve(s) == SelectSeq(SplitOn(s, "/"), LAMBDA c : c # "" /\ c # ".")

-----------------------------------------------------------------------------
(* The log lines and log files the directory is drawn from.  The code       *)
(* appends each marker's token to that marker's own list, so only the       *)
(* order of the lines of one marker matters; the texts follow the order in  *)
(* which a run prints them.                                                 *)

HEADER == ":-) GROMACS - gmx mdrun, 2018 (-:"
MPI1 == "Using 1 MPI process"
MPI4 == "Using 4 MPI processes"
OMP2 == "Using 2 OpenMP threads"
OMP4 == "Using 4 OpenMP threads per tMPI thread"
PERF52 == "Performance: 5.2 4.615"
PERF105 == "Performance: 10.5 2.286"
PERF1050 == "Performance: 10.50 2.286"
GPU1 == "Detected compatible GPU devices: 1 per node"
GPU2 == "Detected compatible GPU devices: 2 per node"
GPUID == "1 compatible GPU is present, with ID 0"
FATAL == "Fatal error: domain decomposition failed"

RunA == <<HEADER, MPI4, OMP2, PERF105>>
RunB == <<HEADER, MPI1, OMP4, PERF52>>

Texts ==
    { <<HEADER, FATAL>>,                     \* no marker line at all
      <<HEADER, MPI4, OMP2, FATAL>>,         \* stopped before the performance line
      <<PERF52>>,                            \* a performance line only
      RunA,
      <<HEADER, MPI1, OMP4, GPU1, PERF1050>>, \* as fast as RunA, other configuration
      <<HEADER, MPI4, OMP2, GPU1, PERF105>>,
      <<HEADER, MPI1, OMP4, GPU2, PERF52>>,
      <<HEADER, GPU1, FATAL>>,               \* a GPU line only
      <<HEADER, MPI4, OMP2, GPUID, PERF105>>, \* third token from the end is a word
      RunA \o RunB }                         \* two runs appended to one log

LogName(i) == "run" \o Digits[i + 1] \o (IF i % 2 = 0 THEN ".log.bak" ELSE ".log")

OtherName(i) == "notes" \o Digits[i + 1] \o ".txt"

\* What the i-th directory entry can be.
Entries(i) ==
    {[name |-> LogName(i), text |-> t] : t \in Texts}
        \cup {[name |-> OtherName(i), text |-> RunA]}

RECURSIVE Dirs(_)
Dirs(n) ==
    IF n = 0 THEN {<<>>}
    ELSE {Append(d, e) : d \in Dirs(n - 1), e \in Entries(n)}

Directories == UNION {Dirs(n) : n \in 0..MaxFiles}

Paths == {".", "logs", "logs/"}

\* Every string the program resolves as a path, with what it resolves to,
\* computed once.
PathStrings ==
    Paths \cup {p \o n : p \in Paths,
                         n \in {LogName(i) : i \in 1..MaxFiles}
                                \cup {OtherName(i) : i \in 1..MaxFiles}}

Resolved == [s \in PathStrings |-> Resolve(s)]

\* os.listdir(path): the names of the entries of the scanned directory
Listdir(d) == [i \in 1..Len(d) |-> d[i].name]

\* The entries of d (the directory at p) that the path string s names.
Named(d, p, s) == {i \in 1..Len(d) : Resolved[p] \o <<d[i].name>> = Resolved[s]}

\* open(s) succeeds
CanOpen(d, p, s) == Named(d, p, s) # {}

\* f.readlines() of open(s)
ReadLines(d, p, s) == d[CHOOSE i \in Named(d, p, s) : TRUE].text

-----------------------------------------------------------------------------
(* getStats *)

NoStats == [nprocs |-> <<>>, nthreads |-> <<>>, performance |-> <<>>,
            ngpus |-> <<>>, err |-> "none"]

\* line.split()[k] for k >= 0 (pos = k + 1) and for k < 0 (pos = Len + 1 + k)
TokenAt(toks, k) == IF k >= 0 THEN k + 1 ELSE Len(toks) + 1 + k

HasToken(toks, k) == TokenAt(toks, k) \in 1..Len(toks)

\* the branch of the if/elif chain that a line takes
Classify(line, gpu) ==
    IF Contains(line, "Using") /\ Contains(line, "OpenMP") THEN "nthreads"
    ELSE IF Contains(line, "Using") /\ Contains(line, "MPI") THEN "nprocs"
    ELSE IF Contains(line, "Performance:") THEN "performance"
    ELSE IF gpu /\ Contains(line, "compatible GPU") THEN "ngpus"
    ELSE IF Contains(line, "Fatal error") THEN "fatal"
    ELSE "none"

\* the index of the token each branch takes
TokenIndex(kind) == IF kind = "ngpus" THEN -3 ELSE 1

\* one iteration of `for line in lines`
ReadLine(st, line, gpu) ==
    LET kind == Classify(line, gpu)
        toks == Split(line)
        k    == TokenIndex(kind)
    IN  IF st.err # "none" \/ kind \in {"fatal", "none"} THEN st
        ELSE IF ~HasToken(toks, k) THEN [st EXCEPT !.err = "IndexError"]
        ELSE [st EXCEPT ![kind] = Append(@, toks[TokenAt(toks, k)])]

RECURSIVE ReadText(_, _, _, _)
\* `for line in lines`, from line i on
ReadText(st, lines, i, gpu) ==
    IF i > Len(lines) THEN st
    ELSE ReadText(ReadLine(st, lines[i], gpu), lines, i + 1, gpu)

\* What the line loop appends for each text, computed once.
Extracted == [gpu \in BOOLEAN |-> [t \in Texts |-> ReadText(NoStats, t, 1, gpu)]]

\* the body of `for file in self.files` for one file
ReadFile(st, d, p, file, gpu) ==
    IF st.err # "none" THEN st
    ELSE IF ~CanOpen(d, p, p \o file) THEN [st EXCEPT !.err = "FileNotFoundError"]
    ELSE LET x == Extracted[gpu][ReadLines(d, p, p \o file)]
         IN  [nprocs      |-> st.nprocs \o x.nprocs,
              nthreads    |-> st.nthreads \o x.nthreads,
              performance |-> st.performance \o x.performance,
              ngpus       |-> st.ngpus \o x.ngpus,
              err         |-> x.err]

RECURSIVE ReadFiles(_, _, _, _, _, _)
ReadFiles(st, d, p, fs, i, gpu) ==
    IF i > Len(fs) THEN st
    ELSE ReadFiles(ReadFile(st, d, p, fs[i], gpu), d, p, fs, i + 1, gpu)

\* the assert that ends getStats
CountsAgree(st) ==
    Len(st.nprocs) = Len(st.nthreads) /\ Len(st.nthreads) = Len(st.performance)

\* getStats on an instance whose self.files is fs
getStats(d, p, fs, gpu) ==
    LET st == ReadFiles(NoStats, d, p, fs, 1, gpu)
    IN  IF st.err = "none" /\ ~CountsAgree(st)
        THEN [st EXCEPT !.err = "AssertionError"]
        ELSE st

-----------------------------------------------------------------------------
(* sortStats *)

\* np.array([int(tok) for tok in toks])
IntArray(toks) == [i \in 1..Len(toks) |-> IntOf(toks[i])]

\* np.array([float(tok) for tok in toks])
FloatArray(toks) == [i \in 1..Len(toks) |-> FloatOf(toks[i])]

\* list(arr), the elements being Python values of type t
ListOf(t, arr) == [i \in 1..Len(arr) |-> [t |-> t, v |-> arr[i]]]

IndexOrders(n) == {p \in [1..n -> 1..n] : \A i, j \in 1..n : p[i] = p[j] => i = j}

\* Argsort without the sort: the order of collection.
ArgsortUnsorted(a) == {[i \in 1..Len(a) |-> i]}

\* np.argsort(a) with the default kind: an index order that sorts a ascending.
\* The default kind is not a stable sort, so the order among equal values is
\* whatever the build produces.
Argsort(a) ==
    {p \in IndexOrders(Len(a)) :
        \A i, j \in 1..Len(a) : i < j => a[p[i]] <= a[p[j]]}

\* FancyIndex that leaves the array as it is.
FancyIndexWhole(arr, idx) == arr

\* arr[indeces]: numpy integer-array indexing
FancyIndex(arr, idx) == [i \in 1..Len(idx) |-> arr[idx[i]]]

\* the exception sortStats raises, in the order of its statements; indeces
\* holds every index below len(self.performance), so arr[indeces] raises
\* IndexError exactly when arr is shorter than self.performance
sortError(fs, st, gpu) ==
    IF \E i \in 1..Len(st.nprocs) : ~IsInt(st.nprocs[i]) THEN "ValueError"
    ELSE IF \E i \in 1..Len(st.nthreads) : ~IsInt(st.nthreads[i]) THEN "ValueError"
    ELSE IF \E i \in 1..Len(st.performance) : ~IsFloat(st.performance[i]) THEN "ValueError"
    ELSE IF Len(st.performance) > Len(fs) THEN "IndexError"
    ELSE IF gpu /\ \E i \in 1..Len(st.ngpus) : ~IsInt(st.ngpus[i]) THEN "ValueError"
    ELSE IF gpu /\ Len(st.performance) > Len(st.ngpus) THEN "IndexError"
    ELSE "none"

\* the index orders sortStats may compute for the collected stats
sortOrders(st) ==
    IF \A i \in 1..Len(st.performance) : IsFloat(st.performance[i])
    THEN Argsort(FloatArray(st.performance))
    ELSE {<<>>}

\* self.ncpus of sortStats
Products(procs, threads) == [i \in 1..Len(procs) |-> procs[i] * threads[i]]

\* sortStats without the reordering of ngpus.
sortStatsGpuUnsorted(fs, st, gpu, idx) ==
    LET procs   == FancyIndex(IntArray(st.nprocs), idx)
        threads == FancyIndex(IntArray(st.nthreads), idx)
    IN  [files       |-> ListOf("str", FancyIndex(fs, idx)),
         nprocs      |-> ListOf("int", procs),
         nthreads    |-> ListOf("int", threads),
         performance |-> ListOf("float", FancyIndex(FloatArray(st.performance), idx)),
         ncpus       |-> ListOf("int", Products(procs, threads)),
         ngpus       |-> IF gpu THEN ListOf("int", IntArray(st.ngpus)) ELSE <<>>]

\* the fields sortStats leaves when it raises nothing and computes idx
sortStats(fs, st, gpu, idx) ==
    LET procs   == FancyIndex(IntArray(st.nprocs), idx)
        threads == FancyIndex(IntArray(st.nthreads), idx)
    IN  [files       |-> ListOf("str", FancyIndex(fs, idx)),
         nprocs      |-> ListOf("int", procs),
         nthreads    |-> ListOf("int", threads),
         performance |-> ListOf("float", FancyIndex(FloatArray(st.performance), idx)),
         ncpus       |-> ListOf("int", Products(procs, threads)),
         ngpus       |-> IF gpu THEN ListOf("int", FancyIndex(IntArray(st.ngpus), idx))
                         ELSE <<>>]

-----------------------------------------------------------------------------
(* __init__ *)

\* [file for file in os.listdir(self.path) if ".log" in file]
LogFiles(d) == SelectSeq(Listdir(d), LAMBDA file : Contains(file, ".log"))

\* the stats getStats collects in __init__
Collected(d, p, gpu) == getStats(d, p, LogFiles(d), gpu)

\* the exception __init__ raises once getStats has collected st
initErrorOf(d, st, gpu) ==
    IF st.err # "none" THEN st.err ELSE sortError(LogFiles(d), st, gpu)

\* the exception __init__ raises
initError(d, p, gpu) == initErrorOf(d, Collected(d, p, gpu), gpu)

Init ==
    /\ dir \in Directories
    /\ path \in Paths
    /\ gpuruns \in BOOLEAN
    /\ files = <<>>
    /\ nprocs = <<>>
    /\ nthreads = <<>>
    /\ performance = <<>>
    /\ ncpus = <<>>
    /\ ngpus = <<>>
    /\ indeces = <<>>
    /\ pc = "new"
    /\ raised = "none"
    /\ printed = <<>>
    /\ calls = 0

\* PerformanceStats(path, gpuruns).  (Each value is bound once by \E over a
\* singleton, so that it is evaluated once.)
Construct ==
    /\ pc = "new"
    /\ \E st \in {Collected(dir, path, gpuruns)} :
       \E err \in {initErrorOf(dir, st, gpuruns)} :
       \E idx \in (IF err = "none" THEN sortOrders(st) ELSE {<<>>}) :
       \E self \in {IF err = "none"
                    THEN sortStats(LogFiles(dir), st, gpuruns, idx)
                    ELSE [files |-> <<>>, nprocs |-> <<>>, nthreads |-> <<>>,
                          performance |-> <<>>, ncpus |-> <<>>, ngpus |-> <<>>]} :
         /\ pc' = IF err = "none" THEN "constructed" ELSE "failed"
         /\ raised' = err
         /\ indeces' = idx
         /\ files' = self.files
         /\ nprocs' = self.nprocs
         /\ nthreads' = self.nthreads
         /\ performance' = self.performance
         /\ ncpus' = self.ncpus
         /\ ngpus' = self.ngpus
    /\ UNCHANGED <<dir, path, gpuruns, printed, calls>>

-----------------------------------------------------------------------------
(* subdivideomp *)

\* AlreadySubdivided without the type test.
AlreadySubdividedNever(nth) == FALSE

\* isinstance(self.nthreads[0], list)
AlreadySubdivided(nth) == nth[1].t = "list"

\* the orders in which `for omp in ompset` may visit a set
Orders(S) ==
    {o \in [1..Cardinality(S) -> S] :
        \A i, j \in 1..Cardinality(S) : o[i] = o[j] => i = j}

\* Bucket without the comparison: every record from position i on.
BucketAll(field, nth, omp, i) == SubSeq(field, i, Len(nth))

RECURSIVE Bucket(_, _, _, _)
\* the list the scan of self.nthreads[0] builds from field for the value omp,
\* from position i on
Bucket(field, nth, omp, i) ==
    IF i > Len(nth) THEN <<>>
    ELSE (IF nth[i] = omp THEN <<field[i]>> ELSE <<>>)
            \o Bucket(field, nth, omp, i + 1)

\* field after the wrap, one appended bucket per omp, and del(field[0])
Subdivided(field, nth, order) ==
    Tail(<<PyList(field)>>
            \o [k \in 1..Len(order) |-> PyList(Bucket(field, nth, order[k], 1))])

Subdivideomp ==
    /\ pc = "constructed"
    /\ calls < MaxCalls
    /\ calls' = calls + 1
    /\ IF Len(nthreads) = 0
       THEN /\ raised' = "IndexError"
            /\ printed' = <<>>
            /\ UNCHANGED fields
       ELSE IF AlreadySubdivided(nthreads)
       THEN /\ raised' = "none"
            /\ printed' = <<"Performance stats are subdivided already!">>
            /\ UNCHANGED fields
       ELSE LET ompset == {nthreads[i] : i \in 1..Len(nthreads)}
            IN  /\ raised' = "none"
                /\ IF Cardinality(ompset) > 1
                   THEN \E order \in Orders(ompset) :
                          /\ printed' = <<"Subdividing the stats into sets...">>
                          /\ files' = Subdivided(files, nthreads, order)
                          /\ nprocs' = Subdivided(nprocs, nthreads, order)
                          /\ nthreads' = Subdivided(nthreads, nthreads, order)
                          /\ performance' = Subdivided(performance, nthreads, order)
                          /\ ncpus' = Subdivided(ncpus, nthreads, order)
                          /\ ngpus' = IF gpuruns THEN Subdivided(ngpus, nthreads, order)
                                      ELSE ngpus
                   ELSE /\ printed' = <<"Subdividing the stats into sets...",
                                        "No subdivision is performed.">>
                        /\ UNCHANGED fields
    /\ UNCHANGED <<dir, path, gpuruns, indeces, pc>>

Next == Construct \/ Subdivideomp

Spec == Init /\ [][Next]_vars

-----------------------------------------------------------------------------
(* Vocabulary of the properties *)

\* the values of a list of Python values
Vals(field) == [i \in 1..Len(field) |-> field[i].v]

\* __init__ has returned an instance and subdivideomp has not been called
Constructed == pc = "constructed" /\ calls = 0

\* what getStats collected from the directory in __init__
Raw == Collected(dir, path, gpuruns)

\* the indices of the directory entries that __init__ lists as log files
LogEntries == {i \in 1..Len(dir) : Contains(dir[i].name, ".log")}

RECURSIVE SourcesFrom(_, _)
\* for each token of one marker, in the order of collection from entry i on,
\* the name of the log file whose text holds its line
SourcesFrom(kind, i) ==
    IF i > Len(dir) THEN <<>>
    ELSE (IF i \in LogEntries
          THEN [k \in 1..Len(Extracted[gpuruns][dir[i].text][kind]) |-> dir[i].name]
          ELSE <<>>) \o SourcesFrom(kind, i + 1)

Sources(kind) == SourcesFrom(kind, 1)

\* the increasing enumeration of a set of positions
Ascending(S) ==
    CHOOSE s \in [1..Cardinality(S) -> S] :
        \A a, b \in 1..Cardinality(S) : a < b => s[a] < s[b]

\* the flat records whose nthreads is v, as one field shows them, in flat order
Restrict(field, v) ==
    LET pos == Ascending({i \in 1..Len(nthreads) : nthreads[i].v = v})
    IN  [k \in 1..Len(pos) |-> field[pos[k]]]

\* the distinct nthreads values of a flat instance
Distinct == {nthreads[i].v : i \in 1..Len(nthreads)}

\* the instance holds flat records
IsFlat == Len(nthreads) > 0 /\ nthreads[1].t = "int"

\* the instance holds buckets
IsNested == Len(nthreads) > 0 /\ nthreads[1].t = "list"

-----------------------------------------------------------------------------
(* Properties of __init__ *)

\* C1: after a successful construction, for every index i, files[i] is the
\* name of the log file from which nprocs[i], nthreads[i] and performance[i]
\* were extracted.
C1_FilesNameTheSourceLog ==
    Constructed =>
        \A i \in 1..Len(files) :
            \A kind \in {"nprocs", "nthreads", "performance"} :
                files[i].v = Sources(kind)[indeces[i]]

\* some log file that was read holds unequal numbers of nprocs, nthreads and
\* performance lines
SomeLogIsUneven ==
    \E i \in LogEntries : ~CountsAgree(Extracted[gpuruns][dir[i].text])

\* C2: construction fails with the assertion error whenever some log file
\* contributes unequal numbers of nprocs, nthreads and performance entries,
\* whatever the other log files contain.
C2_UnevenLogFailsAssertion ==
    (pc # "new" /\ calls = 0 /\ Raw.err # "FileNotFoundError" /\ SomeLogIsUneven)
        => (pc = "failed" /\ raised = "AssertionError")

\* C3: after a successful construction the five sequences have one common
\* length, which in GPU mode is also the length of ngpus.
C3_EqualLengths ==
    Constructed =>
        /\ Len(files) = Len(nprocs)
        /\ Len(nprocs) = Len(nthreads)
        /\ Len(nthreads) = Len(performance)
        /\ Len(performance) = Len(ncpus)
        /\ gpuruns => Len(ncpus) = Len(ngpus)

\* a GPU-mode instance of two records built from a directory that lists more
\* log files than records and that held more GPU lines than records
C3_Witness ==
    /\ Constructed
    /\ gpuruns
    /\ Len(performance) = 2
    /\ Cardinality(LogEntries) > 2
    /\ Len(Raw.ngpus) > 2

\* C4: after a successful construction performance is non-decreasing.
C4_PerformanceAscending ==
    Constructed =>
        \A i \in 1..(Len(performance) - 1) : performance[i].v <= performance[i + 1].v

\* an instance of three records that were collected fastest first
C4_Witness ==
    /\ Constructed
    /\ Len(performance) = 3
    /\ performance[1].v < performance[3].v
    /\ FloatOf(Raw.performance[1]) > FloatOf(Raw.performance[3])

\* C5: the sort is stable: records of equal performance keep the order in
\* which they were collected.
C5_SortIsStable ==
    Constructed =>
        \A i, j \in 1..Len(performance) :
            (i < j /\ performance[i].v = performance[j].v) => indeces[i] < indeces[j]

-----------------------------------------------------------------------------
(* Properties of subdivideomp *)

\* bucket k of the instance after the call holds, in every field, the flat
\* records of before the call whose nthreads is v, in flat order
BucketHolds(k, v) ==
    /\ files'[k] = PyList(Restrict(files, v))
    /\ nprocs'[k] = PyList(Restrict(nprocs, v))
    /\ nthreads'[k] = PyList(Restrict(nthreads, v))
    /\ ncpus'[k] = PyList(Restrict(ncpus, v))
    /\ performance'[k] = PyList(Restrict(performance, v))
    /\ gpuruns => ngpus'[k] = PyList(Restrict(ngpus, v))

\* every field of the instance after the call is a list of n lists
NestedTo(n) ==
    /\ \A field \in {files', nprocs', nthreads', ncpus', performance'} :
          Len(field) = n /\ \A k \in 1..n : field[k].t = "list"
    /\ gpuruns => Len(ngpus') = n /\ \A k \in 1..n : ngpus'[k].t = "list"

\* C6: on flat records with at least two distinct nthreads values,
\* subdivideomp yields one bucket per distinct value, and the bucket of v
\* holds in every field exactly the flat records with nthreads = v, in their
\* flat order.
C6_OneBucketPerThreadCount ==
    [][(pc = "constructed" /\ IsFlat /\ Cardinality(Distinct) >= 2 /\ calls' = calls + 1)
          => /\ NestedTo(Cardinality(Distinct))
             /\ \A v \in Distinct : \E k \in 1..Cardinality(Distinct) : BucketHolds(k, v)]_vars

\* a GPU-mode instance subdivided into two buckets, one of which holds two
\* records of different performance
C6_Witness ==
    /\ pc = "constructed"
    /\ calls = 1
    /\ gpuruns
    /\ IsNested
    /\ Len(nthreads) = 2
    /\ \E k \in 1..2 :
          /\ Len(performance[k].v) = 2
          /\ performance[k].v[1] # performance[k].v[2]
          /\ files[k].v[1] # files[k].v[2]

\* C7: on an instance that holds at least one record, every subdivideomp call
\* after the first raises nothing and changes no field.
C7_RepeatCallChangesNothing ==
    [][(pc = "constructed" /\ Len(nthreads) > 0 /\ calls >= 1 /\ calls' = calls + 1)
          => (fields' = fields /\ raised' = "none")]_vars

\* a subdivided instance on which subdivideomp was called again
C7_Witness ==
    /\ pc = "constructed"
    /\ calls >= 2
    /\ IsNested
    /\ printed = <<"Performance stats are subdivided already!">>

\* C10: subdivideomp on a constructed instance that holds no record raises
\* nothing and leaves every field flat and empty.
C10_EmptyInstanceSubdivides ==
    (pc = "constructed" /\ calls >= 1 /\ Len(nthreads) = 0)
        => (raised = "none" /\ \A field \in {files, nprocs, performance, ncpus, ngpus} : field = <<>>)

-----------------------------------------------------------------------------
(* Properties of the GPU fields and of the path *)

\* construction of the same directory without GPU mode raises nothing
SucceedsWithoutGpu == initError(dir, path, FALSE) = "none"

\* every GPU token collected is an integer
GpuTokensAreInts == \A i \in 1..Len(Raw.ngpus) : IsInt(Raw.ngpus[i])

\* C8, as stated: in GPU mode, when the number of ngpus entries differs from
\* the number of records, in either direction, construction raises no error
\* and completes.
C8_MismatchNeverRaises ==
    (pc # "new" /\ calls = 0 /\ gpuruns /\ SucceedsWithoutGpu /\ GpuTokensAreInts
        /\ Len(Raw.ngpus) # Len(Raw.performance))
        => (pc = "constructed" /\ raised = "none")

\* C8, amended: in GPU mode, with integer GPU tokens, a surplus of ngpus
\* entries raises no error (construction completes whenever it completes
\* without GPU mode) and ngpus[i] is the indeces[i]-th GPU entry collected,
\* whichever log it came from; a shortage of ngpus entries raises IndexError.
C8_SurplusSilentShortageRaises ==
    (pc # "new" /\ calls = 0 /\ gpuruns /\ SucceedsWithoutGpu /\ GpuTokensAreInts)
        => /\ Len(Raw.ngpus) > Len(Raw.performance)
                => /\ pc = "constructed"
                   /\ raised = "none"
                   /\ Vals(ngpus) = [i \in 1..Len(indeces) |-> IntOf(Raw.ngpus[indeces[i]])]
           /\ Len(Raw.ngpus) < Len(Raw.performance)
                => (pc = "failed" /\ raised = "IndexError")

\* a GPU-mode instance built from more GPU lines than records, in which some
\* record carries the GPU count of another log file
C8_Witness ==
    /\ Constructed
    /\ gpuruns
    /\ Len(Raw.ngpus) > Len(Raw.performance)
    /\ \E i \in 1..Len(ngpus) :
          Sources("ngpus")[indeces[i]] # Sources("performance")[indeces[i]]

\* the text holds one line of each marker that the mode reads, each with a
\* numeric token
OneRecord(text) ==
    LET x == Extracted[gpuruns][text]
    IN  /\ Len(x.nprocs) = 1 /\ IsInt(x.nprocs[1])
        /\ Len(x.nthreads) = 1 /\ IsInt(x.nthreads[1])
        /\ Len(x.performance) = 1 /\ IsFloat(x.performance[1])
        /\ gpuruns => (Len(x.ngpus) = 1 /\ IsInt(x.ngpus[1]))

\* C9: for every path, with or without a trailing separator, each listed
\* entry whose name contains ".log" is opened at its own location inside the
\* directory, so construction over well-formed logs succeeds.
C9_ListedLogsAreOpened ==
    (pc # "new" /\ \A i \in LogEntries : OneRecord(dir[i].text))
        => /\ \A i \in LogEntries : Named(dir, path, path \o dir[i].name) = {i}
           /\ pc = "constructed"

====
